---- MODULE Spec2Model ----
(***************************************************************************)
(* The four diagnostic scripts of tools/: diagmove.py (raw-packet probe    *)
(* wrapper), checkquality.py (jump/quality reporter), checkbjl.py          *)
(* (position-range reporter) and checkdeaths.py (death/track alignment     *)
(* checker).  The scripts share no code and no state, so each one has its  *)
(* own variables, its own initial state and its own next-state relation;   *)
(* while one script runs, the variables of the other three stay idle.      *)
(*                                                                         *)
(* Numbers.  The scripts compute on floats read from JSON.  Here times     *)
(* and jump coordinates are whole units, distances are kept in 1/Scale     *)
(* units (the square root is rounded down to that resolution), and the     *)
(* coordinates that checkbjl.py rounds are kept in thousandths.            *)
(***************************************************************************)
EXTENDS Integers, Sequences, FiniteSets, TLC

VARIABLES
    \* diagmove.py
    lines,            \* result.stdout.split('\n')
    in_section,       \* the in_section flag
    li,               \* index in lines of the line the for loop is at
    printed,          \* indexes of the lines print(line) has written, in order
    pc_diag,          \* "scan" | "done"
    \* checkquality.py
    q_left,           \* number of records of moves the outer for has not reached
    pos,              \* m['positions'] of the record at hand
    i,                \* the counting loop's index (0-based, as in the source)
    total_jumps,
    big_jumps,
    q_out,            \* what has been printed for the record at hand
    q_err,            \* "none", or the exception that ended the script
    pc_quality,       \* "next" | "count" | "listing" | "listed" | "done" | "crashed"
    \* checkbjl.py
    b_left,           \* number of records of d['movements'] the outer for has not reached
    b_pos,            \* pos, the positions of the 'BjL-' record at hand
    bi,               \* index in pos of the position the inner for is at
    xs,
    ys,
    zs,
    b_out,            \* what has been printed for the record at hand
    b_err,            \* "none", or the exception that ended the script
    pc_bjl,           \* "next" | "collect" | "reported" | "done" | "crashed"
    \* checkdeaths.py
    fi,               \* number of files the outer for has taken
    moves,            \* the moves dict, as its items in insertion order
    feedback,
    deaths_countdown,
    ei,               \* index in feedback of the event the for loop is at
    mk,               \* index in moves.items() of the player the for loop is at
    d_out,            \* the player lines printed for the file at hand
    pc_deaths         \* "load" | "feedback" | "moves" | "done"

diagVars == <<lines, in_section, li, printed, pc_diag>>
qualityVars == <<q_left, pos, i, total_jumps, big_jumps, q_out, q_err, pc_quality>>
bjlVars == <<b_left, b_pos, bi, xs, ys, zs, b_out, b_err, pc_bjl>>
deathsVars == <<fi, moves, feedback, deaths_countdown, ei, mk, d_out, pc_deaths>>

vars == <<diagVars, qualityVars, bjlVars, deathsVars>>

\* All sequences over S of length at most n.
SeqsUpTo(S, n) == UNION {[1..k -> S] : k \in 0..n}

(***************************************************************************)
(* diagmove.py                                                             *)
(***************************************************************************)
MaxLines == 3

StartMarkers == {"Player ID Probe", "Players:", "ANALYSIS 1"}
EndMarker == "ANALYSIS 2"

\* A line of the tool's output is characterised by the marker strings that
\* occur in it; `marker in line` is membership in that set.
Contains(marker, line) == marker \in line

LineKinds == SUBSET (StartMarkers \cup {EndMarker})

\* The condition of the first if of the loop body.
IsStart(line) ==
    \E marker \in StartMarkers : Contains(marker, line)

DiagIdle ==
    /\ lines = <<>>
    /\ in_section = FALSE
    /\ li = 0
    /\ printed = <<>>
    /\ pc_diag = "idle"

\* str.split always returns at least one element.
InitDiag ==
    /\ lines \in (SeqsUpTo(LineKinds, MaxLines) \ {<<>>})
    /\ in_section = FALSE
    /\ li = 1
    /\ printed = <<>>
    /\ pc_diag = "scan"

\* A variant of the loop body that tests the end marker before printing.
ScanLineBreakFirst ==
    /\ pc_diag = "scan"
    /\ li <= Len(lines)
    /\ LET line == lines[li]
           sec == in_section \/ IsStart(line)
       IN  /\ in_section' = sec
           /\ IF Contains(EndMarker, line)
              THEN /\ pc_diag' = "done"
                   /\ UNCHANGED <<li, printed>>
              ELSE /\ printed' = IF sec THEN Append(printed, li) ELSE printed
                   /\ li' = li + 1
                   /\ pc_diag' = "scan"
    /\ UNCHANGED lines

\* A variant of the loop body that prints before it sets the flag.
ScanLinePrintFirst ==
    /\ pc_diag = "scan"
    /\ li <= Len(lines)
    /\ LET line == lines[li]
       IN  /\ printed' = IF in_section THEN Append(printed, li) ELSE printed
           /\ in_section' = (in_section \/ IsStart(line))
           /\ IF Contains(EndMarker, line)
              THEN pc_diag' = "done" /\ li' = li
              ELSE pc_diag' = "scan" /\ li' = li + 1
    /\ UNCHANGED lines

\* One iteration of `for line in lines` (lines 22-30).  Lines 27-28 are an
\* if whose body is pass.  On break the loop variable stays at the line.
ScanLine ==
    /\ pc_diag = "scan"
    /\ li <= Len(lines)
    /\ LET line == lines[li]
           sec == in_section \/ IsStart(line)
       IN  /\ in_section' = sec
           /\ printed' = IF sec THEN Append(printed, li) ELSE printed
           /\ IF Contains(EndMarker, line)
              THEN pc_diag' = "done" /\ li' = li
              ELSE pc_diag' = "scan" /\ li' = li + 1
    /\ UNCHANGED lines

\* The for loop runs out of lines.
ScanExhausted ==
    /\ pc_diag = "scan"
    /\ li > Len(lines)
    /\ pc_diag' = "done"
    /\ UNCHANGED <<lines, in_section, li, printed>>

(***************************************************************************)
(* checkquality.py                                                         *)
(***************************************************************************)
MaxRecs == 2
MaxPos == 3
Scale == 1000

JumpThreshold == 3
BigJumpThreshold == 10
ListingThreshold == 3
ListingLimit == 20

\* A position: p['x'], p['y'] and p['z'].
Positions == [x : {0, 4, 10}, y : {0, 3}, z : {0, 5}]

PosSeqs == SeqsUpTo(Positions, MaxPos)

Min(a, b) == IF a < b THEN a ELSE b

\* The largest r in lo..hi with r * r <= n.
RECURSIVE SqrtSearch(_, _, _)
SqrtSearch(n, lo, hi) ==
    IF lo >= hi THEN lo
    ELSE LET mid == (lo + hi + 1) \div 2
         IN  IF mid * mid <= n THEN SqrtSearch(n, mid, hi) ELSE SqrtSearch(n, lo, mid - 1)

\* v ** 0.5 for v in square units, in 1/Scale units, rounded down.
Sqrt(v) == SqrtSearch(v * Scale * Scale, 0, Min(v * Scale * Scale, 46340))

\* dist of lines 18-20 for the step from p to q; z is not read.
Dist(p, q) ==
    LET dx == q.x - p.x
        dy == q.y - p.y
    IN  Sqrt(dx * dx + dy * dy)

\* A variant of the >3 test that also counts a step of exactly 3.
IsJumpNonStrict(dist) == dist >= JumpThreshold * Scale

\* dist > 3.0
IsJump(dist) == dist > JumpThreshold * Scale

\* A variant of the >10 test with the threshold mistyped as 1.0.
IsBigJumpTypo(dist) == dist > Scale

\* dist > 10.0
IsBigJump(dist) == dist > BigJumpThreshold * Scale

\* A variant of the summary's guard that is off by one.
HasStepsOffByOne(p) == Len(p) > 0

\* len(pos) > 1
HasSteps(p) == Len(p) > 1

\* a / b on Python numbers: the exact quotient as <<numerator, denominator>>,
\* or the exception.
TrueDiv(a, b) == IF b = 0 THEN "ZeroDivisionError" ELSE <<a, b>>

QualityIdle ==
    /\ q_left = 0
    /\ pos = <<>>
    /\ i = 0
    /\ total_jumps = 0
    /\ big_jumps = 0
    /\ q_out = <<>>
    /\ q_err = "none"
    /\ pc_quality = "idle"

\* After json.load and moves = d.get('movements', []).
InitQuality ==
    /\ q_left \in 0..MaxRecs
    /\ pos = <<>>
    /\ i = 0
    /\ total_jumps = 0
    /\ big_jumps = 0
    /\ q_out = <<>>
    /\ q_err = "none"
    /\ pc_quality = "next"

\* The outer for takes the next record (lines 8-16): header line, counters
\* reset.  The record's positions are read here.
NextRecord ==
    /\ pc_quality = "next"
    /\ q_left > 0
    /\ \E p \in PosSeqs :
        /\ pos' = p
        /\ q_out' = <<[line |-> "header", positions |-> Len(p)]>>
    /\ q_left' = q_left - 1
    /\ total_jumps' = 0
    /\ big_jumps' = 0
    /\ i' = 1
    /\ q_err' = q_err
    /\ pc_quality' = "count"

\* One iteration of `for i in range(1, len(pos))` (lines 17-24).  pos[i] of
\* the source is pos[i + 1] here.
CountStep ==
    /\ pc_quality = "count"
    /\ i < Len(pos)
    /\ LET dist == Dist(pos[i], pos[i + 1])
       IN  /\ total_jumps' = IF IsJump(dist) THEN total_jumps + 1 ELSE total_jumps
           /\ big_jumps' = IF IsBigJump(dist) THEN big_jumps + 1 ELSE big_jumps
    /\ i' = i + 1
    /\ UNCHANGED <<q_left, pos, q_out, q_err, pc_quality>>

\* The counting loop is over; the summary of lines 26-29.
Summary ==
    /\ pc_quality = "count"
    /\ i >= Len(pos)
    /\ IF HasSteps(pos)
       THEN LET pct == TrueDiv(100 * total_jumps, Len(pos) - 1)
            IN  IF pct = "ZeroDivisionError"
                THEN /\ q_err' = "ZeroDivisionError"
                     /\ pc_quality' = "crashed"
                     /\ q_out' = q_out
                ELSE /\ q_out' = q_out \o
                        << [line |-> "jumps3", jumps |-> total_jumps,
                            steps |-> Len(pos) - 1, pct |-> pct],
                           [line |-> "jumps10", jumps |-> big_jumps,
                            steps |-> Len(pos) - 1] >>
                     /\ q_err' = q_err
                     /\ pc_quality' = "listing"
       ELSE /\ pc_quality' = "listing"
            /\ UNCHANGED <<q_out, q_err>>
    /\ UNCHANGED <<q_left, pos, i, total_jumps, big_jumps>>

\* The listing of the first 20 positions with jump markers, and the blank
\* line (lines 32-46).
Listing ==
    /\ pc_quality = "listing"
    /\ q_out' = Append(q_out,
            [line |-> "listing",
             marks |-> [k \in 1..Min(ListingLimit, Len(pos)) |->
                            k > 1 /\ Dist(pos[k - 1], pos[k]) > ListingThreshold * Scale]])
    /\ pc_quality' = "listed"
    /\ UNCHANGED <<q_left, pos, i, total_jumps, big_jumps, q_err>>

\* The outer for goes back to its head.  Nothing reads the record's variables
\* again before lines 9-16 assign them anew, so they are dropped here.
QualityLoopBack ==
    /\ pc_quality = "listed"
    /\ pos' = <<>>
    /\ i' = 0
    /\ total_jumps' = 0
    /\ big_jumps' = 0
    /\ q_out' = <<>>
    /\ pc_quality' = "next"
    /\ UNCHANGED <<q_left, q_err>>

\* The outer for runs out of records.
QualityFinish ==
    /\ pc_quality = "next"
    /\ q_left = 0
    /\ pc_quality' = "done"
    /\ UNCHANGED <<q_left, pos, i, total_jumps, big_jumps, q_out, q_err>>

(***************************************************************************)
(* checkbjl.py                                                             *)
(***************************************************************************)
MaxBjlRecs == 2
MaxBjlPos == 3

FirstCount == 50
MidFrom == 500
MidTo == 520
LastCount == 30

\* Coordinates in thousandths.  125, 375 and 625 thousandths are exact binary
\* fractions, so round() sees an exact tie there; 120 and 124 are no ties.
BjlPositions == [x : {120, 125, 375}, y : {-125, 124}, z : {625}]

BjlPosSeqs == SeqsUpTo(BjlPositions, MaxBjlPos)

\* round(v, 2) on a value in thousandths: to the nearest hundredth, an exact
\* tie to the even hundredth.
Round2(v) ==
    LET q == v \div 10
        r == v % 10
    IN  IF r < 5 THEN 10 * q
        ELSE IF r > 5 THEN 10 * (q + 1)
        ELSE IF q % 2 = 0 THEN 10 * q ELSE 10 * (q + 1)

\* min(s) and max(s) of a non-empty set.
SetMin(s) == CHOOSE v \in s : \A w \in s : v <= w
SetMax(s) == CHOOSE v \in s : \A w \in s : v >= w

\* s[a:b] for 0 <= a <= b, and s[-n:].
Slice(s, a, b) == SubSeq(s, a + 1, Min(b, Len(s)))
LastN(s, n) == SubSeq(s, (IF Len(s) > n THEN Len(s) - n ELSE 0) + 1, Len(s))

\* The "(%.2f, %.2f, %.2f)" part of a listing line.
Fmt2(p) == [x |-> Round2(p.x), y |-> Round2(p.y), z |-> Round2(p.z)]

FmtAll(s) == [k \in 1..Len(s) |-> Fmt2(s[k])]

BjlIdle ==
    /\ b_left = 0
    /\ b_pos = <<>>
    /\ bi = 0
    /\ xs = {}
    /\ ys = {}
    /\ zs = {}
    /\ b_out = <<>>
    /\ b_err = "none"
    /\ pc_bjl = "idle"

\* After json.load.
InitBjl ==
    /\ b_left \in 0..MaxBjlRecs
    /\ b_pos = <<>>
    /\ bi = 0
    /\ xs = {}
    /\ ys = {}
    /\ zs = {}
    /\ b_out = <<>>
    /\ b_err = "none"
    /\ pc_bjl = "next"

\* The outer for takes the next record (lines 6-11); a record of another
\* player is passed over.
BjlNextRecord ==
    /\ pc_bjl = "next"
    /\ b_left > 0
    /\ b_left' = b_left - 1
    /\ \E username \in {"BjL-", "other"} :
        IF username = "BjL-"
        THEN /\ \E p \in BjlPosSeqs : b_pos' = p
             /\ xs' = {}
             /\ ys' = {}
             /\ zs' = {}
             /\ bi' = 1
             /\ b_out' = <<>>
             /\ pc_bjl' = "collect"
        ELSE UNCHANGED <<b_pos, xs, ys, zs, bi, b_out, pc_bjl>>
    /\ b_err' = b_err

\* A variant of the loop body that adds the coordinates as they are.
BjlAddUnrounded ==
    /\ pc_bjl = "collect"
    /\ bi <= Len(b_pos)
    /\ xs' = xs \cup {b_pos[bi].x}
    /\ ys' = ys \cup {b_pos[bi].y}
    /\ zs' = zs \cup {b_pos[bi].z}
    /\ bi' = bi + 1
    /\ UNCHANGED <<b_left, b_pos, b_out, b_err, pc_bjl>>

\* One iteration of `for p in pos` (lines 12-15).
BjlAdd ==
    /\ pc_bjl = "collect"
    /\ bi <= Len(b_pos)
    /\ xs' = xs \cup {Round2(b_pos[bi].x)}
    /\ ys' = ys \cup {Round2(b_pos[bi].y)}
    /\ zs' = zs \cup {Round2(b_pos[bi].z)}
    /\ bi' = bi + 1
    /\ UNCHANGED <<b_left, b_pos, b_out, b_err, pc_bjl>>

\* The report (lines 16-31).  min() of an empty set raises ValueError, after
\* the line with the number of positions has been printed.
BjlReport ==
    /\ pc_bjl = "collect"
    /\ bi > Len(b_pos)
    /\ IF xs = {}
       THEN /\ b_out' = <<[line |-> "positions", n |-> Len(b_pos)]>>
            /\ b_err' = "ValueError"
            /\ pc_bjl' = "crashed"
       ELSE /\ b_out' =
                << [line |-> "positions", n |-> Len(b_pos)],
                   [line |-> "x", n |-> Cardinality(xs), min |-> SetMin(xs), max |-> SetMax(xs)],
                   [line |-> "y", n |-> Cardinality(ys), min |-> SetMin(ys), max |-> SetMax(ys)],
                   [line |-> "z", n |-> Cardinality(zs), min |-> SetMin(zs), max |-> SetMax(zs)],
                   [line |-> "first", rows |-> FmtAll(Slice(b_pos, 0, FirstCount))],
                   [line |-> "middle", rows |-> FmtAll(Slice(b_pos, MidFrom, MidTo))],
                   [line |-> "last", rows |-> FmtAll(LastN(b_pos, LastCount))] >>
            /\ b_err' = b_err
            /\ pc_bjl' = "reported"
    /\ UNCHANGED <<b_left, b_pos, bi, xs, ys, zs>>

\* The outer for goes back to its head.  Nothing reads the record's variables
\* again before lines 8-11 assign them anew, so they are dropped here.
BjlLoopBack ==
    /\ pc_bjl = "reported"
    /\ b_pos' = <<>>
    /\ bi' = 0
    /\ xs' = {}
    /\ ys' = {}
    /\ zs' = {}
    /\ b_out' = <<>>
    /\ pc_bjl' = "next"
    /\ UNCHANGED <<b_left, b_err>>

\* The outer for runs out of records.
BjlFinish ==
    /\ pc_bjl = "next"
    /\ b_left = 0
    /\ pc_bjl' = "done"
    /\ UNCHANGED <<b_left, b_pos, bi, xs, ys, zs, b_out, b_err>>

(***************************************************************************)
(* checkdeaths.py                                                          *)
(***************************************************************************)
MaxEvents == 2
MaxPlayers == 2
MaxTrack == 2

NumFiles == 2
Prep == 45
RoundDuration == 180
Tolerance == 10

Names == {"a", "b"}
Countdowns == {0, 179, 180}
TrackTimes == {35, 56}

\* A feedback event: ev['type']['name'], ev['username'], ev['target'] and
\* ev['timeInSeconds'].
Events(times) ==
    [type : {"Kill", "Death", "Other"}, username : Names, target : Names,
     timeInSeconds : times]

DeathEv(u, c) == [type |-> "Death", username |-> u, target |-> u, timeInSeconds |-> c]
KillEv(u, t, c) == [type |-> "Kill", username |-> u, target |-> t, timeInSeconds |-> c]

\* A movement record: m['username'] and the timeInSeconds of m['positions'].
Records == [username : Names, positions : SeqsUpTo(TrackTimes, MaxTrack)]

\* The files the script is run on: any feedback with one short track, or any
\* movements with a feedback that leaves a, both a and b, or neither with a
\* death.
Datasets ==
    [matchFeedback : SeqsUpTo(Events({0, 180}), MaxEvents),
     movements : {<<[username |-> "a", positions |-> <<35>>]>>}]
    \cup
    [matchFeedback :
        {<<>>} \cup {<<DeathEv("a", c)>> : c \in Countdowns}
               \cup {<<DeathEv("a", c[1]), KillEv("a", "b", c[2])>> :
                        c \in {d \in Countdowns \X Countdowns : d[1] # d[2]}},
     movements : SeqsUpTo(Records, MaxPlayers)]

\* A dict in insertion order, as a sequence of <<key, value>> items.
RECURSIVE DictSet(_, _, _)
DictSet(items, key, value) ==
    IF items = <<>> THEN <<<<key, value>>>>
    ELSE IF Head(items)[1] = key THEN <<<<key, value>>>> \o Tail(items)
    ELSE <<Head(items)>> \o DictSet(Tail(items), key, value)

\* {m['username']: m for m in d.get('movements', [])}
RECURSIVE MovesDict(_)
MovesDict(movements) ==
    IF movements = <<>> THEN <<>>
    ELSE LET m == movements[Len(movements)]
         IN  DictSet(MovesDict(SubSeq(movements, 1, Len(movements) - 1)), m.username, m)

EmptyDict == [n \in {} |-> 0]

\* A variant of the event step that keeps the first time recorded for a name.
RecordDeathFirstWins(dc, ev) ==
    LET victim == IF ev.type = "Kill" THEN ev.target ELSE ev.username
    IN  IF ev.type \in {"Kill", "Death"} /\ victim \notin DOMAIN dc
        THEN [n \in DOMAIN dc \cup {victim} |->
                IF n = victim THEN ev.timeInSeconds ELSE dc[n]]
        ELSE dc

\* The body of `for ev in feedback` (lines 22-29) on deaths_countdown = dc.
RecordDeath(dc, ev) ==
    IF ev.type = "Kill"
    THEN [n \in DOMAIN dc \cup {ev.target} |->
            IF n = ev.target THEN ev.timeInSeconds ELSE dc[n]]
    ELSE IF ev.type = "Death"
    THEN [n \in DOMAIN dc \cup {ev.username} |->
            IF n = ev.username THEN ev.timeInSeconds ELSE dc[n]]
    ELSE dc

\* A variant of the conversion that leaves the preparation phase out.
DeathElapsedNoPrep(countdown) == RoundDuration - countdown

\* death_elapsed = 45.0 + (180.0 - countdown)
DeathElapsed(countdown) == Prep + (RoundDuration - countdown)

Abs(n) == IF n < 0 THEN -n ELSE n

\* A variant of the classification with a strict tolerance test.
ClassifyStrict(diff) ==
    IF Abs(diff) < Tolerance THEN "GOOD"
    ELSE IF diff > Tolerance THEN "BAD"
    ELSE "OK"

\* The if / elif / else of lines 44-49.
Classify(diff) ==
    IF Abs(diff) <= Tolerance THEN "GOOD"
    ELSE IF diff > Tolerance THEN "BAD"
    ELSE "OK"

\* A variant of the test of line 33 that also skips a one-position track.
SkipsShortTrack(p) == Len(p) <= 1

\* not pos
Skips(p) == p = <<>>

\* status of lines 38-51 for a player with a non-empty track: its kind and
\* the numbers its text shows (for "OK" the first of them is -diff).
Status(username, p, dc) ==
    LET track_end == p[Len(p)]
    IN  IF username \in DOMAIN dc
        THEN LET countdown == dc[username]
                 death_elapsed == DeathElapsed(countdown)
                 diff == track_end - death_elapsed
                 kind == Classify(diff)
             IN  [kind |-> kind,
                  death_elapsed |-> death_elapsed,
                  track_end |-> track_end,
                  diff |-> IF kind = "OK" THEN -diff ELSE diff]
        ELSE [kind |-> "survived", track_end |-> track_end]

DeathsIdle ==
    /\ fi = 0
    /\ moves = <<>>
    /\ feedback = <<>>
    /\ deaths_countdown = EmptyDict
    /\ ei = 0
    /\ mk = 0
    /\ d_out = <<>>
    /\ pc_deaths = "idle"

\* Before the first file.
InitDeaths ==
    /\ fi = 0
    /\ moves = <<>>
    /\ feedback = <<>>
    /\ deaths_countdown = EmptyDict
    /\ ei = 0
    /\ mk = 0
    /\ d_out = <<>>
    /\ pc_deaths = "load"

\* The outer for takes the next file (lines 8-20): load, moves, feedback,
\* header, empty deaths_countdown.
LoadFile ==
    /\ pc_deaths = "load"
    /\ fi < NumFiles
    /\ fi' = fi + 1
    /\ \E d \in Datasets :
        /\ moves' = MovesDict(d.movements)
        /\ feedback' = d.matchFeedback
    /\ deaths_countdown' = EmptyDict
    /\ ei' = 1
    /\ mk' = 0
    /\ d_out' = <<>>
    /\ pc_deaths' = "feedback"

\* One iteration of `for ev in feedback` (lines 21-29).
FeedbackStep ==
    /\ pc_deaths = "feedback"
    /\ ei <= Len(feedback)
    /\ deaths_countdown' = RecordDeath(deaths_countdown, feedback[ei])
    /\ ei' = ei + 1
    /\ UNCHANGED <<fi, moves, feedback, mk, d_out, pc_deaths>>

\* The feedback loop is over.
FeedbackDone ==
    /\ pc_deaths = "feedback"
    /\ ei > Len(feedback)
    /\ mk' = 1
    /\ pc_deaths' = "moves"
    /\ UNCHANGED <<fi, moves, feedback, deaths_countdown, ei, d_out>>

\* One iteration of `for username, m in moves.items()` (lines 31-53): a
\* player without positions is passed over, any other gets a line.
MovesStep ==
    /\ pc_deaths = "moves"
    /\ mk <= Len(moves)
    /\ LET username == moves[mk][1]
           m == moves[mk][2]
       IN  IF Skips(m.positions)
           THEN d_out' = d_out
           ELSE d_out' = Append(d_out,
                    [username |-> username,
                     status |-> Status(username, m.positions, deaths_countdown)])
    /\ mk' = mk + 1
    /\ UNCHANGED <<fi, moves, feedback, deaths_countdown, ei, pc_deaths>>

\* The players loop is over: blank line (line 54), back to the head of the
\* outer for.  Nothing reads the file's variables again before lines 12-20
\* assign them anew, so they are dropped here.
FileDone ==
    /\ pc_deaths = "moves"
    /\ mk > Len(moves)
    /\ moves' = <<>>
    /\ feedback' = <<>>
    /\ deaths_countdown' = EmptyDict
    /\ ei' = 0
    /\ mk' = 0
    /\ d_out' = <<>>
    /\ pc_deaths' = "load"
    /\ fi' = fi

\* The outer for runs out of files.
DeathsFinish ==
    /\ pc_deaths = "load"
    /\ fi = NumFiles
    /\ pc_deaths' = "done"
    /\ UNCHANGED <<fi, moves, feedback, deaths_countdown, ei, mk, d_out>>

(***************************************************************************)
(* The four programs.                                                      *)
(***************************************************************************)
DiagStart == InitDiag /\ QualityIdle /\ BjlIdle /\ DeathsIdle

NextDiag ==
    \/ ScanLine /\ UNCHANGED <<qualityVars, bjlVars, deathsVars>>
    \/ ScanExhausted /\ UNCHANGED <<qualityVars, bjlVars, deathsVars>>

SpecDiag == DiagStart /\ [][NextDiag]_vars

QualityStart == InitQuality /\ DiagIdle /\ BjlIdle /\ DeathsIdle

NextQuality ==
    \/ NextRecord /\ UNCHANGED <<diagVars, bjlVars, deathsVars>>
    \/ CountStep /\ UNCHANGED <<diagVars, bjlVars, deathsVars>>
    \/ Summary /\ UNCHANGED <<diagVars, bjlVars, deathsVars>>
    \/ Listing /\ UNCHANGED <<diagVars, bjlVars, deathsVars>>
    \/ QualityLoopBack /\ UNCHANGED <<diagVars, bjlVars, deathsVars>>
    \/ QualityFinish /\ UNCHANGED <<diagVars, bjlVars, deathsVars>>

SpecQuality == QualityStart /\ [][NextQuality]_vars

BjlStart == InitBjl /\ DiagIdle /\ QualityIdle /\ DeathsIdle

NextBjl ==
    \/ BjlNextRecord /\ UNCHANGED <<diagVars, qualityVars, deathsVars>>
    \/ BjlAdd /\ UNCHANGED <<diagVars, qualityVars, deathsVars>>
    \/ BjlReport /\ UNCHANGED <<diagVars, qualityVars, deathsVars>>
    \/ BjlLoopBack /\ UNCHANGED <<diagVars, qualityVars, deathsVars>>
    \/ BjlFinish /\ UNCHANGED <<diagVars, qualityVars, deathsVars>>

SpecBjl == BjlStart /\ [][NextBjl]_vars

DeathsStart == InitDeaths /\ DiagIdle /\ QualityIdle /\ BjlIdle

NextDeaths ==
    \/ LoadFile /\ UNCHANGED <<diagVars, qualityVars, bjlVars>>
    \/ FeedbackStep /\ UNCHANGED <<diagVars, qualityVars, bjlVars>>
    \/ FeedbackDone /\ UNCHANGED <<diagVars, qualityVars, bjlVars>>
    \/ MovesStep /\ UNCHANGED <<diagVars, qualityVars, bjlVars>>
    \/ FileDone /\ UNCHANGED <<diagVars, qualityVars, bjlVars>>
    \/ DeathsFinish /\ UNCHANGED <<diagVars, qualityVars, bjlVars>>

SpecDeaths == DeathsStart /\ [][NextDeaths]_vars

(***************************************************************************)
(* Properties.                                                             *)
(***************************************************************************)
\* Number of lines the loop body has run on.
Scanned == IF pc_diag = "done" /\ li <= Len(lines) THEN li ELSE li - 1

\* Index of the first line among the first k that holds a start marker, 0 if none.
FirstStart(k) ==
    IF \E j \in 1..k : IsStart(lines[j])
    THEN CHOOSE j \in 1..k : IsStart(lines[j]) /\ \A h \in 1..(j - 1) : ~IsStart(lines[h])
    ELSE 0

\* Index of the first line that holds the end marker, 0 if none.
FirstEnd ==
    IF \E j \in 1..Len(lines) : Contains(EndMarker, lines[j])
    THEN CHOOSE j \in 1..Len(lines) :
            Contains(EndMarker, lines[j]) /\ \A h \in 1..(j - 1) : ~Contains(EndMarker, lines[h])
    ELSE 0

\* C2 as stated: the first start-marker line is printed and no line holding
\* 'ANALYSIS 2' is ever printed.
C2_NoEndMarkerPrinted ==
    /\ \A k \in 1..Len(printed) : ~Contains(EndMarker, lines[printed[k]])
    /\ (pc_diag = "done" /\ FirstStart(Len(lines)) # 0) =>
            \E k \in 1..Len(printed) : printed[k] = FirstStart(Len(lines))

\* C2 amended: when the scan is over, the first start-marker line is printed
\* unless a line holding 'ANALYSIS 2' comes before it; nothing after the first
\* 'ANALYSIS 2' line is printed; and that line itself is printed exactly when
\* a start marker occurs on it or before it.
C2_EndMarkerLinePrintedLast ==
    pc_diag = "done" =>
        LET s == FirstStart(Len(lines))
            e == FirstEnd
            Printed(j) == \E k \in 1..Len(printed) : printed[k] = j
        IN  /\ (s # 0 /\ (e = 0 \/ s <= e)) => Printed(s)
            /\ e # 0 => \A j \in (e + 1)..Len(lines) : ~Printed(j)
            /\ e # 0 => (Printed(e) <=> (s # 0 /\ s <= e))
            /\ e # 0 /\ Printed(e) => printed[Len(printed)] = e

C2_Witness ==
    /\ pc_diag = "done"
    /\ Len(lines) = 3
    /\ IsStart(lines[1])
    /\ lines[2] = {"ANALYSIS 2"}
    /\ printed = <<1, 2>>

\* C9: the printed lines are one contiguous run: nothing before the first
\* start-marker line, then every scanned line from it on (the flag is set from
\* there on); and when a line holding 'ANALYSIS 2' and no start marker comes
\* before any start-marker line, the scan stops on it with nothing printed.
C9_ContiguousRun ==
    LET s == FirstStart(Scanned)
        e == FirstEnd
    IN  /\ in_section = (s # 0)
        /\ printed = IF s = 0 THEN <<>> ELSE [k \in 1..(Scanned - s + 1) |-> s + k - 1]
        /\ (pc_diag = "done" /\ e # 0 /\ \A j \in 1..e : ~IsStart(lines[j])) =>
                (printed = <<>> /\ li = e)

C9_Witness ==
    /\ pc_diag = "done"
    /\ Len(lines) = 3
    /\ ~IsStart(lines[1])
    /\ printed = <<2, 3>>

C9_WitnessEndFirst ==
    /\ pc_diag = "done"
    /\ Len(lines) = 3
    /\ lines[1] = {"ANALYSIS 2"}
    /\ IsStart(lines[2])
    /\ printed = <<>>

\* Squared planar length of the k-th step of pos.
StepSq(k) ==
    (pos[k + 1].x - pos[k].x) * (pos[k + 1].x - pos[k].x)
        + (pos[k + 1].y - pos[k].y) * (pos[k + 1].y - pos[k].y)

SummaryLines == {k \in 1..Len(q_out) : q_out[k].line \in {"jumps3", "jumps10"}}

\* C3: for a record with at most one position the counting loop has no step
\* to run, both counters stay zero, the percentage is never computed (no
\* summary line, no ZeroDivisionError) and the script goes on.
C3_ShortRecordNoDivision ==
    Len(pos) <= 1 =>
        /\ total_jumps = 0
        /\ big_jumps = 0
        /\ SummaryLines = {}
        /\ q_err = "none"
        /\ pc_quality # "crashed"
        /\ pc_quality = "count" => ~(i < Len(pos))

C3_Witness ==
    /\ Len(pos) = 1
    /\ pc_quality = "listed"
    /\ q_left > 0
    /\ Len(q_out) = 2
    /\ q_out[2].line = "listing"

\* C4: a step counts as a >3 (>10) jump exactly when its planar length is
\* strictly above 3 (10), so that a step of exactly 3 (10) does not count;
\* [(0,0),(4,0)] gives one >3 jump and no >10 jump; z is not consulted.
C4_StrictThresholds ==
    /\ total_jumps = Cardinality({k \in 1..(i - 1) : StepSq(k) > 3 * 3})
    /\ big_jumps = Cardinality({k \in 1..(i - 1) : StepSq(k) > 10 * 10})
    /\ (/\ pc_quality = "listing"
        /\ Len(pos) = 2
        /\ pos[1].x = 0 /\ pos[1].y = 0
        /\ pos[2].x = 4 /\ pos[2].y = 0) => (total_jumps = 1 /\ big_jumps = 0)

C4_Witness ==
    /\ pc_quality = "listing"
    /\ pos = << [x |-> 0, y |-> 3, z |-> 0], [x |-> 0, y |-> 0, z |-> 5],
                [x |-> 10, y |-> 0, z |-> 0] >>
    /\ total_jumps = 1
    /\ big_jumps = 0

\* C10 as stated: while a record is processed,
\* 0 <= big_jumps <= total_jumps <= steps processed <= len(pos) - 1.
C10_ChainBelowLenMinusOne ==
    pc_quality \in {"count", "listing", "listed"} =>
        /\ 0 <= big_jumps
        /\ big_jumps <= total_jumps
        /\ total_jumps <= i - 1
        /\ i - 1 <= Len(pos) - 1

\* C10 amended: while a record is processed,
\* 0 <= big_jumps <= total_jumps <= steps processed <= max(len(pos) - 1, 0),
\* and a printed percentage lies between 0 and 100.
C10_ChainBelowStepCount ==
    /\ pc_quality \in {"count", "listing", "listed"} =>
        /\ 0 <= big_jumps
        /\ big_jumps <= total_jumps
        /\ total_jumps <= i - 1
        /\ i - 1 <= (IF Len(pos) > 0 THEN Len(pos) - 1 ELSE 0)
    /\ \A k \in {h \in SummaryLines : q_out[h].line = "jumps3"} :
        /\ q_out[k].pct[2] > 0
        /\ 0 <= q_out[k].pct[1]
        /\ q_out[k].pct[1] <= 100 * q_out[k].pct[2]

C10_Witness ==
    /\ pc_quality = "listing"
    /\ Len(pos) = 3
    /\ total_jumps = 2
    /\ big_jumps = 1
    /\ SummaryLines # {}

\* The rounding-and-deduplicating step applied to a set of values.
ReRound(s) == {Round2(v) : v \in s}

\* C8: rounding to two decimals and collecting in a set is idempotent: the
\* step applied to xs, ys and zs gives the same sets, hence the same count,
\* minimum and maximum.
C8_RoundingIdempotent ==
    \A s \in {xs, ys, zs} :
        /\ ReRound(s) = s
        /\ Cardinality(ReRound(s)) = Cardinality(s)
        /\ s # {} => (SetMin(ReRound(s)) = SetMin(s) /\ SetMax(ReRound(s)) = SetMax(s))

C8_Witness ==
    /\ pc_bjl = "reported"
    /\ Len(b_pos) = 3
    /\ b_pos[1].x = 125 /\ b_pos[2].x = 120 /\ b_pos[3].x = 375
    /\ xs = {120, 380}
    /\ ys = {-120}
    /\ Len(b_out) = 7

\* The players the loop over moves.items() has dealt with.
PlayersDone == IF pc_deaths = "moves" THEN 1..(mk - 1) ELSE {}

\* The printed lines of a player.
LinesOf(username) == {j \in 1..Len(d_out) : d_out[j].username = username}

\* C1 as stated: every player of the movements without an entry in the death
\* map is classified "survived", a player with no positions included.
C1_AbsentAlwaysSurvived ==
    \A k \in PlayersDone :
        moves[k][1] \notin DOMAIN deaths_countdown =>
            \E j \in LinesOf(moves[k][1]) : d_out[j].status.kind = "survived"

\* C1 amended: every player of the movements without an entry in the death
\* map and with at least one position is classified "survived", whatever the
\* track's end time; a player with no positions is passed over and gets no
\* classification at all.
C1_AbsentWithTrackSurvived ==
    \A k \in PlayersDone :
        LET username == moves[k][1]
            p == moves[k][2].positions
        IN  /\ (username \notin DOMAIN deaths_countdown /\ p # <<>>) =>
                /\ Cardinality(LinesOf(username)) = 1
                /\ \A j \in LinesOf(username) :
                        /\ d_out[j].status.kind = "survived"
                        /\ d_out[j].status.track_end = p[Len(p)]
            /\ p = <<>> => LinesOf(username) = {}

C1_Witness ==
    /\ pc_deaths = "moves"
    /\ mk = 3
    /\ Len(moves) = 2
    /\ deaths_countdown = EmptyDict
    /\ moves[1][2].positions = <<>>
    /\ moves[2][2].positions = <<56, 35>>
    /\ Len(d_out) = 1
    /\ d_out[1].status.kind = "survived"

\* C5: a player with at least one position and an entry in the death map
\* gets exactly one of three classifications of diff = track_end -
\* death_elapsed: GOOD iff |diff| <= 10, BAD iff diff > 10, OK iff diff < -10.
C5_ThreeWayClassification ==
    \A k \in PlayersDone :
        LET username == moves[k][1]
            p == moves[k][2].positions
        IN  (username \in DOMAIN deaths_countdown /\ p # <<>>) =>
                /\ Cardinality(LinesOf(username)) = 1
                /\ \A j \in LinesOf(username) :
                        LET st == d_out[j].status
                            diff == p[Len(p)] - st.death_elapsed
                        IN  /\ st.kind \in {"GOOD", "BAD", "OK"}
                            /\ st.kind = "GOOD" <=> (diff >= -10 /\ diff <= 10)
                            /\ st.kind = "BAD" <=> diff > 10
                            /\ st.kind = "OK" <=> diff < -10

C5_Witness ==
    /\ pc_deaths = "moves"
    /\ mk = 3
    /\ Len(d_out) = 2
    /\ d_out[1].status.kind = "GOOD" /\ d_out[1].status.diff = 10
    /\ d_out[2].status.kind = "BAD" /\ d_out[2].status.diff = 11

\* The printed lines that report a death.
DeathLines == {j \in 1..Len(d_out) : d_out[j].status.kind # "survived"}

\* C6: death_elapsed is 45 + (180 - countdown): 45 for countdown 180, 225 for
\* countdown 0, the same for equal countdowns whatever the track, and
\* strictly smaller for a larger countdown.
C6_ElapsedConversion ==
    \A j \in DeathLines :
        LET c == deaths_countdown[d_out[j].username]
            e == d_out[j].status.death_elapsed
        IN  /\ e = 45 + (180 - c)
            /\ c = 180 => e = 45
            /\ c = 0 => e = 225
            /\ \A h \in DeathLines :
                LET c2 == deaths_countdown[d_out[h].username]
                    e2 == d_out[h].status.death_elapsed
                IN  /\ c = c2 => e = e2
                    /\ c < c2 => e > e2

C6_Witness ==
    /\ pc_deaths = "moves"
    /\ Len(d_out) = 2
    /\ DeathLines = {1, 2}
    /\ d_out[1].status.death_elapsed = 225
    /\ d_out[2].status.death_elapsed = 45
    /\ d_out[1].status.track_end # d_out[2].status.track_end

\* The name a feedback event gives as victim, "" for an event of another type.
Victim(ev) ==
    IF ev.type = "Kill" THEN ev.target
    ELSE IF ev.type = "Death" THEN ev.username
    ELSE ""

\* C7: after the events processed so far, the death map holds for each name
\* the timeInSeconds of the last event naming it as victim (a Kill names its
\* target, a Death its username), and no other name.
C7_LastWriteWins ==
    LET n == ei - 1
        Naming(name) == {k \in 1..n : Victim(feedback[k]) = name}
        Last(s) == CHOOSE k \in s : \A h \in s : h <= k
    IN  /\ DOMAIN deaths_countdown = {name \in Names : Naming(name) # {}}
        /\ \A name \in DOMAIN deaths_countdown :
                deaths_countdown[name] = feedback[Last(Naming(name))].timeInSeconds

C7_Witness ==
    /\ pc_deaths = "feedback"
    /\ ei = 3
    /\ feedback[1] = DeathEv("a", 180)
    /\ feedback[2] = KillEv("b", "a", 0)
    /\ DOMAIN deaths_countdown = {"a"}
    /\ deaths_countdown["a"] = 0

====
